---- MODULE Spec2Model ----
(***************************************************************************)
(* A model of the WebGL demo scripts of this repository:                   *)
(*   "interleaved"  WebGLApp with one interleaved buffer (src/script.js,   *)
(*                  class at 340-481 and its documented twin at 6-226),    *)
(*   "free"         the free-function triangle (src/script.js 238-338),    *)
(*   "twobuf"       WebGLApp with separate position/colour buffers         *)
(*                  (src/unnamed/part_000 6-240),                          *)
(*   "cube"         the rotating cube (src/unnamed/part_000 245-360).      *)
(* The state is the script's own variables plus `calls`, the sequence of   *)
(* host API calls (canvas, gl, console, alert, mat4, requestAnimationFrame)*)
(* the script has issued so far, in program order.  The host's answers     *)
(* (getContext outcome, COMPILE_STATUS, LINK_STATUS, what attachShader     *)
(* does with null) are inputs chosen with \E.                              *)
(***************************************************************************)
EXTENDS Integers, Sequences, FiniteSets, TLC

VARIABLES variant, pc, calls, gl, shaderProgram, buffers, attributes,
          vertexShader, fragmentShader, compileStatus, linked, thrown,
          matrix, uniformMatrix, pending, frames

vars == <<variant, pc, calls, gl, shaderProgram, buffers, attributes,
          vertexShader, fragmentShader, compileStatus, linked, thrown,
          matrix, uniformMatrix, pending, frames>>

(* Number of requestAnimationFrame callbacks the host is let to fire. *)
MaxFrames == 3

Variants == {"interleaved", "free", "twobuf", "cube"}
AppVariants == {"interleaved", "twobuf"}
TriangleVariants == {"interleaved", "free", "twobuf"}

(* The three things canvas.getContext(name) can do. *)
ContextOutcomes == {"ctx", "null", "throw"}

(* What the host does with attachShader(program, null): current WebIDL     *)
(* bindings throw a TypeError, older ones record INVALID_VALUE and return. *)
AttachNullOutcomes == {"TypeError", "INVALID_VALUE"}

(* One host API call.  target: the enum or name argument (buffer target,   *)
(* shader type, draw mode, context name; for alert/console.error the       *)
(* object whose driver info log is interpolated into the text, "" if none).*)
(* obj: the object or string operand.  args: the numeric operands, and for *)
(* a query its numeric result.                                             *)
Call(op, target, obj, args) ==
  [op |-> op, target |-> target, obj |-> obj, args |-> args]

EmptyObject == [k \in {} |-> ""]
NoAttributes == [k \in {} |-> 0]

Bool2Int(b) == IF b THEN 1 ELSE 0

(* ---------------- data of the scripts ---------------- *)

(* Triangle vertices x, y, r, g, b in tenths (-0.8 is -8). *)
triangleVertices ==
  << -8, -5, 10, 0, 0,   0, 8, 0, 10, 0,   8, -5, 0, 0, 10 >>

twobufVertexData == << 0, 1, -1, -1, 1, -1 >>
twobufColorData == << 1, 0, 0, 0, 1, 0, 0, 0, 1 >>

(* The cube's 36 vertex positions, three coordinates each. *)
vertexData ==
  << 1, 1, 1, 1, -1, 1, -1, 1, 1, -1, 1, 1, 1, -1, 1, -1, -1, 1,
     1, 1, -1, 1, -1, -1, -1, 1, -1, -1, 1, -1, 1, -1, -1, -1, -1, -1,
     1, 1, 1, 1, 1, -1, -1, 1, 1, -1, 1, 1, 1, 1, -1, -1, 1, -1,
     1, -1, 1, 1, -1, -1, -1, -1, 1, -1, -1, 1, 1, -1, -1, -1, -1, -1,
     1, 1, 1, 1, 1, -1, 1, -1, 1, 1, -1, 1, 1, 1, -1, 1, -1, -1,
     -1, 1, 1, -1, 1, -1, -1, -1, 1, -1, -1, 1, -1, 1, -1, -1, -1, -1 >>

colorData ==
  << <<1, 0, 0>>, <<0, 1, 0>>, <<0, 0, 1>>,
     <<1, 1, 0>>, <<1, 0, 1>>, <<0, 1, 1>> >>

(* for (i = 0; i < 6; i++) colors = colors.concat(c, c, c, c, c, c) *)
RECURSIVE ColorsUpTo(_)
ColorsUpTo(i) ==
  IF i = 0 THEN << >>
  ELSE LET c == colorData[i]
       IN  ColorsUpTo(i - 1) \o c \o c \o c \o c \o c \o c

colors == ColorsUpTo(Len(colorData))

(* Attribute names of the vertex shader, in declaration order. *)
AttrNames(v) ==
  IF v \in {"interleaved", "free"} THEN <<"a_Position", "a_Color">>
  ELSE <<"position", "color">>

(* gl.getAttribLocation: the attribute's index in a linked program, -1 when *)
(* the program is not linked.                                               *)
GetAttribLocation(isLinked, v, name) ==
  IF ~isLinked THEN -1
  ELSE IF name = AttrNames(v)[1] THEN 0 ELSE 1

(* A property of this.attributes passed as a GLuint: undefined becomes 0. *)
AttrArg(attrs, key) == IF key \in DOMAIN attrs THEN attrs[key] ELSE 0

(* A property of this.buffers passed as a buffer: undefined stays so. *)
BufArg(bufs, key) == IF key \in DOMAIN bufs THEN bufs[key] ELSE "undefined"

NoStatus == [k \in {} |-> FALSE]

(* s with key k set to value x (a JS property assignment). *)
Put(s, k, x) == [j \in DOMAIN s \cup {k} |-> IF j = k THEN x ELSE s[j]]

(* The LINK_STATUS a driver can report: true only if a vertex and a        *)
(* fragment shader are attached and both compiled.                         *)
LinkOutcomes(vs, fs, status) ==
  IF /\ vs = "vs" /\ fs = "fs"
     /\ "vs" \in DOMAIN status /\ "fs" \in DOMAIN status
     /\ status["vs"] /\ status["fs"]
  THEN {TRUE, FALSE} ELSE {FALSE}

(* ---------------- WebGLApp (interleaved, twobuf) ---------------- *)

(* initWebGL without its try/catch: an exception of getContext leaves it. *)
InitWebGLNoCatch(r1, r2) ==
  LET first == <<Call("getContext", "webgl", r1, << >>)>>
      second == IF r1 = "null"
                THEN <<Call("getContext", "experimental-webgl", r2, << >>)>>
                ELSE << >>
      threw == r1 = "throw" \/ (r1 = "null" /\ r2 = "throw")
      ret == IF threw THEN "null"
             ELSE IF r1 = "ctx" THEN "webgl"
             ELSE IF r2 = "ctx" THEN "experimental-webgl"
             ELSE "null"
  IN  [ret |-> ret, calls |-> first \o second,
       propagated |-> IF threw THEN "Error" ELSE "none"]

(* WebGLApp.initWebGL(canvas): r1, r2 are what getContext("webgl") and     *)
(* getContext("experimental-webgl") would do; the second is asked only     *)
(* when the first returned a falsy value.  ret is the value returned,      *)
(* propagated the exception that leaves the method ("none": the catch      *)
(* swallows every one).                                                    *)
InitWebGL(r1, r2) ==
  LET first == <<Call("getContext", "webgl", r1, << >>)>>
      second == IF r1 = "null"
                THEN <<Call("getContext", "experimental-webgl", r2, << >>)>>
                ELSE << >>
      threw == r1 = "throw" \/ (r1 = "null" /\ r2 = "throw")
      report == IF threw
                THEN <<Call("console.error", "",
                            "Unable to initialize WebGL. Your browser may not support it.",
                            << >>)>>
                ELSE << >>
      ret == IF threw THEN "null"
             ELSE IF r1 = "ctx" THEN "webgl"
             ELSE IF r2 = "ctx" THEN "experimental-webgl"
             ELSE "null"
  IN  [ret |-> ret, calls |-> first \o second \o report, propagated |-> "none"]

ShaderName(type) == IF type = "VERTEX_SHADER" THEN "vs" ELSE "fs"

(* compileShader that leaks the failed shader: no deleteShader. *)
CompileShaderNoDelete(type, ok) ==
  LET shader == ShaderName(type)
      head == << Call("createShader", type, shader, << >>),
                 Call("shaderSource", "", shader, << >>),
                 Call("compileShader", "", shader, << >>),
                 Call("getShaderParameter", "COMPILE_STATUS", shader,
                      <<Bool2Int(ok)>>) >>
      fail == << Call("getShaderInfoLog", "", shader, << >>),
                 Call("console.error", shader,
                      "An error occurred compiling the shaders: ", << >>) >>
  IN  IF ok THEN [ret |-> shader, calls |-> head]
      ELSE [ret |-> "null", calls |-> head \o fail]

(* WebGLApp.compileShader(source, type); ok is the COMPILE_STATUS the      *)
(* driver reports.                                                         *)
CompileShader(type, ok) ==
  LET shader == ShaderName(type)
      head == << Call("createShader", type, shader, << >>),
                 Call("shaderSource", "", shader, << >>),
                 Call("compileShader", "", shader, << >>),
                 Call("getShaderParameter", "COMPILE_STATUS", shader,
                      <<Bool2Int(ok)>>) >>
      fail == << Call("getShaderInfoLog", "", shader, << >>),
                 Call("console.error", shader,
                      "An error occurred compiling the shaders: ", << >>),
                 Call("deleteShader", "", shader, << >>) >>
  IN  IF ok THEN [ret |-> shader, calls |-> head]
      ELSE [ret |-> "null", calls |-> head \o fail]

(* The gl calls of WebGLApp.init before initShaders. *)
AppInitCalls(v) ==
  LET c == IF v = "twobuf" THEN 1 ELSE 0
  IN  << Call("clearColor", "", "", <<c, c, c, 1>>),
         Call("enable", "DEPTH_TEST", "", << >>),
         Call("depthFunc", "LEQUAL", "", << >>),
         Call("viewport", "", "canvas", <<0, 0>>) >>

(* initBuffers that creates and binds its buffers but uploads nothing. *)
AppInitBuffersNoUpload(v) ==
  IF v = "interleaved"
  THEN [buffers |-> [k \in {"triangle"} |-> "triangle"],
        calls |-> << Call("createBuffer", "", "triangle", << >>),
                     Call("bindBuffer", "ARRAY_BUFFER", "triangle", << >>) >>]
  ELSE [buffers |-> [k \in {"position", "color"} |-> k],
        calls |-> << Call("createBuffer", "", "position", << >>),
                     Call("createBuffer", "", "color", << >>),
                     Call("bindBuffer", "ARRAY_BUFFER", "position", << >>),
                     Call("bindBuffer", "ARRAY_BUFFER", "color", << >>) >>]

(* WebGLApp.initBuffers *)
AppInitBuffers(v) ==
  IF v = "interleaved"
  THEN [buffers |-> [k \in {"triangle"} |-> "triangle"],
        calls |-> << Call("createBuffer", "", "triangle", << >>),
                     Call("bindBuffer", "ARRAY_BUFFER", "triangle", << >>),
                     Call("bufferData", "ARRAY_BUFFER", "STATIC_DRAW",
                          <<Len(triangleVertices)>>) >>]
  ELSE [buffers |-> [k \in {"position", "color"} |-> k],
        calls |-> << Call("createBuffer", "", "position", << >>),
                     Call("createBuffer", "", "color", << >>),
                     Call("bindBuffer", "ARRAY_BUFFER", "position", << >>),
                     Call("bufferData", "ARRAY_BUFFER", "STATIC_DRAW",
                          <<Len(twobufVertexData)>>),
                     Call("bindBuffer", "ARRAY_BUFFER", "color", << >>),
                     Call("bufferData", "ARRAY_BUFFER", "STATIC_DRAW",
                          <<Len(twobufColorData)>>) >>]

(* draw that passes the number of floats, not of vertices, as the count. *)
AppDrawFloatCount(v, bufs, attrs) ==
  LET p == AttrArg(attrs, "position")
      c == AttrArg(attrs, "color")
  IN  IF v = "interleaved"
      THEN << Call("clear", "COLOR_BUFFER_BIT|DEPTH_BUFFER_BIT", "", << >>),
              Call("bindBuffer", "ARRAY_BUFFER", BufArg(bufs, "triangle"), << >>),
              Call("vertexAttribPointer", "FLOAT", "", <<p, 2, 5 * 4, 0>>),
              Call("vertexAttribPointer", "FLOAT", "", <<c, 3, 5 * 4, 2 * 4>>),
              Call("enableVertexAttribArray", "", "", <<p>>),
              Call("enableVertexAttribArray", "", "", <<c>>),
              Call("drawArrays", "TRIANGLES", "", <<0, Len(triangleVertices)>>) >>
      ELSE << Call("clear", "COLOR_BUFFER_BIT|DEPTH_BUFFER_BIT", "", << >>),
              Call("bindBuffer", "ARRAY_BUFFER", BufArg(bufs, "position"), << >>),
              Call("vertexAttribPointer", "FLOAT", "", <<p, 2, 0, 0>>),
              Call("bindBuffer", "ARRAY_BUFFER", BufArg(bufs, "color"), << >>),
              Call("vertexAttribPointer", "FLOAT", "", <<c, 3, 0, 0>>),
              Call("enableVertexAttribArray", "", "", <<p>>),
              Call("enableVertexAttribArray", "", "", <<c>>),
              Call("drawArrays", "TRIANGLES", "", <<0, Len(twobufVertexData)>>) >>

(* WebGLApp.draw, given this.buffers and this.attributes. *)
AppDraw(v, bufs, attrs) ==
  LET p == AttrArg(attrs, "position")
      c == AttrArg(attrs, "color")
  IN  IF v = "interleaved"
      THEN << Call("clear", "COLOR_BUFFER_BIT|DEPTH_BUFFER_BIT", "", << >>),
              Call("bindBuffer", "ARRAY_BUFFER", BufArg(bufs, "triangle"), << >>),
              Call("vertexAttribPointer", "FLOAT", "", <<p, 2, 5 * 4, 0>>),
              Call("vertexAttribPointer", "FLOAT", "", <<c, 3, 5 * 4, 2 * 4>>),
              Call("enableVertexAttribArray", "", "", <<p>>),
              Call("enableVertexAttribArray", "", "", <<c>>),
              Call("drawArrays", "TRIANGLES", "", <<0, 3>>) >>
      ELSE << Call("clear", "COLOR_BUFFER_BIT|DEPTH_BUFFER_BIT", "", << >>),
              Call("bindBuffer", "ARRAY_BUFFER", BufArg(bufs, "position"), << >>),
              Call("vertexAttribPointer", "FLOAT", "", <<p, 2, 0, 0>>),
              Call("bindBuffer", "ARRAY_BUFFER", BufArg(bufs, "color"), << >>),
              Call("vertexAttribPointer", "FLOAT", "", <<c, 3, 0, 0>>),
              Call("enableVertexAttribArray", "", "", <<p>>),
              Call("enableVertexAttribArray", "", "", <<c>>),
              Call("drawArrays", "TRIANGLES", "", <<0, 3>>) >>

(* createProgram, attachShader x2 in the given order, up to a TypeError.   *)
(* Returns the calls issued and whether attachShader threw.                *)
AttachBoth(s1, s2, onNull) ==
  LET a1 == <<Call("attachShader", "", s1, << >>)>>
      a2 == <<Call("attachShader", "", s2, << >>)>>
      create == <<Call("createProgram", "", "program", << >>)>>
      throws1 == s1 = "null" /\ onNull = "TypeError"
      throws2 == s2 = "null" /\ onNull = "TypeError"
  IN  IF throws1 THEN [calls |-> create \o a1, threw |-> TRUE]
      ELSE IF throws2 THEN [calls |-> create \o a1 \o a2, threw |-> TRUE]
      ELSE [calls |-> create \o a1 \o a2, threw |-> FALSE]

(* new WebGLApp("glcanvas"), the first statement of start() *)
AppConstructor ==
  /\ variant \in AppVariants
  /\ pc = "start"
  /\ \E r1 \in ContextOutcomes, r2 \in ContextOutcomes :
       LET r == InitWebGL(r1, r2)
       IN  /\ (r1 # "null" => r2 = "null")
           /\ gl' = r.ret
           /\ calls' = calls \o r.calls
           /\ thrown' = r.propagated
           /\ pc' = IF r.propagated = "none" THEN "init" ELSE "crashed"
  /\ shaderProgram' = "null"
  /\ buffers' = EmptyObject
  /\ attributes' = NoAttributes
  /\ UNCHANGED <<variant, vertexShader, fragmentShader, compileStatus, linked,
                 matrix, uniformMatrix, pending, frames>>

(* app.init() up to the call of initShaders; nothing at all without a gl *)
AppInit ==
  /\ variant \in AppVariants
  /\ pc = "init"
  /\ IF gl # "null"
     THEN /\ calls' = calls \o AppInitCalls(variant)
          /\ pc' = "compileVS"
     ELSE /\ pc' = "draw"
          /\ UNCHANGED calls
  /\ UNCHANGED <<compileStatus, variant, gl, shaderProgram, buffers, attributes,
                 vertexShader, fragmentShader, linked, thrown,
                 matrix, uniformMatrix, pending, frames>>

(* the two this.compileShader(...) calls of initShaders *)
AppCompileVertex ==
  /\ variant \in AppVariants
  /\ pc = "compileVS"
  /\ \E ok \in BOOLEAN :
       LET r == CompileShader("VERTEX_SHADER", ok)
       IN  /\ vertexShader' = r.ret
           /\ compileStatus' = Put(compileStatus, "vs", ok)
           /\ calls' = calls \o r.calls
  /\ pc' = "compileFS"
  /\ UNCHANGED <<variant, gl, shaderProgram, buffers, attributes,
                 fragmentShader, linked, thrown,
                 matrix, uniformMatrix, pending, frames>>

AppCompileFragment ==
  /\ variant \in AppVariants
  /\ pc = "compileFS"
  /\ \E ok \in BOOLEAN :
       LET r == CompileShader("FRAGMENT_SHADER", ok)
       IN  /\ fragmentShader' = r.ret
           /\ compileStatus' = Put(compileStatus, "fs", ok)
           /\ calls' = calls \o r.calls
  /\ pc' = "link"
  /\ UNCHANGED <<variant, gl, shaderProgram, buffers, attributes,
                 vertexShader, linked, thrown,
                 matrix, uniformMatrix, pending, frames>>

(* The rest of WebGLApp.initShaders after the program is attached: link,   *)
(* check, and on success useProgram and the attribute locations.           *)
AppLinkAndLocate(v, ok) ==
  LET link == << Call("linkProgram", "", "program", << >>),
                 Call("getProgramParameter", "LINK_STATUS", "program",
                      <<Bool2Int(ok)>>) >>
      p == GetAttribLocation(ok, v, AttrNames(v)[1])
      c == GetAttribLocation(ok, v, AttrNames(v)[2])
  IN  IF ~ok
      THEN [attributes |-> NoAttributes,
            calls |-> link \o
              <<Call("console.error", "",
                     "Unable to initialize the shader program.", << >>)>>]
      ELSE [attributes |-> [k \in {"position", "color"} |->
                              IF k = "position" THEN p ELSE c],
            calls |-> link \o
              << Call("useProgram", "", "program", << >>),
                 Call("getAttribLocation", AttrNames(v)[1], "program", <<p>>),
                 Call("getAttribLocation", AttrNames(v)[2], "program", <<c>>) >>]

(* initShaders from createProgram on.  A TypeError from attachShader(null) *)
(* leaves initShaders, init and start: nothing after it runs.              *)
AppInitShaders ==
  /\ variant \in AppVariants
  /\ pc = "link"
  /\ shaderProgram' = "program"
  /\ \E onNull \in AttachNullOutcomes, ok \in LinkOutcomes(vertexShader, fragmentShader, compileStatus) :
       LET a == AttachBoth(vertexShader, fragmentShader, onNull)
           r == AppLinkAndLocate(variant, ok)
       IN  IF a.threw
           THEN /\ calls' = calls \o a.calls
                /\ thrown' = "TypeError"
                /\ pc' = "crashed"
                /\ UNCHANGED <<attributes, linked>>
           ELSE /\ calls' = calls \o a.calls \o r.calls
                /\ attributes' = r.attributes
                /\ linked' = ok
                /\ pc' = "initBuffers"
                /\ UNCHANGED thrown
  /\ UNCHANGED <<compileStatus, variant, gl, buffers, vertexShader, fragmentShader,
                 matrix, uniformMatrix, pending, frames>>

AppInitBuffersStep ==
  /\ variant \in AppVariants
  /\ pc = "initBuffers"
  /\ LET r == AppInitBuffers(variant)
     IN  /\ buffers' = r.buffers
         /\ calls' = calls \o r.calls
  /\ pc' = "draw"
  /\ UNCHANGED <<compileStatus, variant, gl, shaderProgram, attributes,
                 vertexShader, fragmentShader, linked, thrown,
                 matrix, uniformMatrix, pending, frames>>

(* app.draw(): this.gl.clear on a null gl is a TypeError *)
AppDrawStep ==
  /\ variant \in AppVariants
  /\ pc = "draw"
  /\ IF gl = "null"
     THEN /\ thrown' = "TypeError"
          /\ pc' = "crashed"
          /\ UNCHANGED calls
     ELSE /\ calls' = calls \o AppDraw(variant, buffers, attributes)
          /\ pc' = "done"
          /\ UNCHANGED thrown
  /\ UNCHANGED <<compileStatus, variant, gl, shaderProgram, buffers, attributes,
                 vertexShader, fragmentShader, linked,
                 matrix, uniformMatrix, pending, frames>>

(* ---------------- the free-function triangle ---------------- *)

(* initWebGL(canvas) of the free-function script: alerts in the catch. *)
FreeInitWebGL(r1, r2) ==
  LET first == <<Call("getContext", "webgl", r1, << >>)>>
      second == IF r1 = "null"
                THEN <<Call("getContext", "experimental-webgl", r2, << >>)>>
                ELSE << >>
      threw == r1 = "throw" \/ (r1 = "null" /\ r2 = "throw")
      report == IF threw
                THEN <<Call("alert", "",
                            "Unable to initialize WebGL. Your browser may not support it.",
                            << >>)>>
                ELSE << >>
      ret == IF threw THEN "null"
             ELSE IF r1 = "ctx" THEN "webgl"
             ELSE IF r2 = "ctx" THEN "experimental-webgl"
             ELSE "null"
  IN  [ret |-> ret, calls |-> first \o second \o report]

(* The gl calls of start() inside if (gl), before initShaders(). *)
FreeStartCalls ==
  << Call("clearColor", "", "", <<0, 0, 0, 1>>),
     Call("enable", "DEPTH_TEST", "", << >>),
     Call("depthFunc", "LEQUAL", "", << >>),
     Call("clear", "COLOR_BUFFER_BIT|DEPTH_BUFFER_BIT", "", << >>),
     Call("viewport", "", "canvas", <<0, 0>>) >>

(* getShader(gl, id, source): null for an unknown id or a failed compile;  *)
(* the failed shader is not deleted.                                       *)
GetShader(id, ok) ==
  LET type == IF id = "shader-fs" THEN "FRAGMENT_SHADER" ELSE "VERTEX_SHADER"
      shader == ShaderName(type)
      head == << Call("createShader", type, shader, << >>),
                 Call("shaderSource", "", shader, << >>),
                 Call("compileShader", "", shader, << >>),
                 Call("getShaderParameter", "COMPILE_STATUS", shader,
                      <<Bool2Int(ok)>>) >>
      fail == << Call("getShaderInfoLog", "", shader, << >>),
                 Call("alert", shader,
                      "An error occurred compiling the shaders: ", << >>) >>
  IN  IF id \notin {"shader-fs", "shader-vs"} THEN [ret |-> "null", calls |-> << >>]
      ELSE IF ok THEN [ret |-> shader, calls |-> head]
      ELSE [ret |-> "null", calls |-> head \o fail]

(* initShaders() after attachShader: link, alert on failure, and           *)
(* useProgram either way.                                                  *)
FreeLinkAndUse(ok) ==
  << Call("linkProgram", "", "program", << >>),
     Call("getProgramParameter", "LINK_STATUS", "program", <<Bool2Int(ok)>>) >>
  \o (IF ok THEN << >>
      ELSE <<Call("alert", "", "Unable to initialize the shader program.", << >>)>>)
  \o <<Call("useProgram", "", "program", << >>)>>

(* initBuffer that sets the attribute pointers before the upload. *)
FreeInitBufferPointersFirst(isLinked) ==
  LET p == GetAttribLocation(isLinked, "free", "a_Position")
      c == GetAttribLocation(isLinked, "free", "a_Color")
  IN  << Call("getAttribLocation", "a_Position", "program", <<p>>),
         Call("getAttribLocation", "a_Color", "program", <<c>>),
         Call("enableVertexAttribArray", "", "", <<p>>),
         Call("enableVertexAttribArray", "", "", <<c>>),
         Call("createBuffer", "", "TRIANGLE_VERTEX", << >>),
         Call("bindBuffer", "ARRAY_BUFFER", "TRIANGLE_VERTEX", << >>),
         Call("vertexAttribPointer", "FLOAT", "", <<p, 2, 5 * 4, 0>>),
         Call("vertexAttribPointer", "FLOAT", "", <<c, 3, 5 * 4, 2 * 4>>),
         Call("bufferData", "ARRAY_BUFFER", "STATIC_DRAW",
              <<Len(triangleVertices)>>),
         Call("drawArrays", "TRIANGLES", "", <<0, 3>>) >>

(* initBuffer() *)
FreeInitBuffer(isLinked) ==
  LET p == GetAttribLocation(isLinked, "free", "a_Position")
      c == GetAttribLocation(isLinked, "free", "a_Color")
  IN  << Call("getAttribLocation", "a_Position", "program", <<p>>),
         Call("getAttribLocation", "a_Color", "program", <<c>>),
         Call("enableVertexAttribArray", "", "", <<p>>),
         Call("enableVertexAttribArray", "", "", <<c>>),
         Call("createBuffer", "", "TRIANGLE_VERTEX", << >>),
         Call("bindBuffer", "ARRAY_BUFFER", "TRIANGLE_VERTEX", << >>),
         Call("bufferData", "ARRAY_BUFFER", "STATIC_DRAW",
              <<Len(triangleVertices)>>),
         Call("vertexAttribPointer", "FLOAT", "", <<p, 2, 5 * 4, 0>>),
         Call("vertexAttribPointer", "FLOAT", "", <<c, 3, 5 * 4, 2 * 4>>),
         Call("drawArrays", "TRIANGLES", "", <<0, 3>>) >>

(* start() up to the call of initShaders(); it ends here without a gl *)
FreeStart ==
  /\ variant = "free"
  /\ pc = "start"
  /\ \E r1 \in ContextOutcomes, r2 \in ContextOutcomes :
       LET r == FreeInitWebGL(r1, r2)
       IN  /\ (r1 # "null" => r2 = "null")
           /\ gl' = r.ret
           /\ IF r.ret # "null"
              THEN /\ calls' = calls \o r.calls \o FreeStartCalls
                   /\ pc' = "getShaderFS"
              ELSE /\ calls' = calls \o r.calls
                   /\ pc' = "done"
  /\ UNCHANGED <<variant, shaderProgram, buffers, attributes, vertexShader,
                 fragmentShader, compileStatus, linked, thrown,
                 matrix, uniformMatrix, pending, frames>>

FreeGetFragmentShader ==
  /\ variant = "free"
  /\ pc = "getShaderFS"
  /\ \E ok \in BOOLEAN :
       LET r == GetShader("shader-fs", ok)
       IN  /\ fragmentShader' = r.ret
           /\ compileStatus' = Put(compileStatus, "fs", ok)
           /\ calls' = calls \o r.calls
  /\ pc' = "getShaderVS"
  /\ UNCHANGED <<variant, gl, shaderProgram, buffers, attributes, vertexShader,
                 linked, thrown, matrix, uniformMatrix, pending, frames>>

FreeGetVertexShader ==
  /\ variant = "free"
  /\ pc = "getShaderVS"
  /\ \E ok \in BOOLEAN :
       LET r == GetShader("shader-vs", ok)
       IN  /\ vertexShader' = r.ret
           /\ compileStatus' = Put(compileStatus, "vs", ok)
           /\ calls' = calls \o r.calls
  /\ pc' = "link"
  /\ UNCHANGED <<variant, gl, shaderProgram, buffers, attributes, fragmentShader,
                 linked, thrown, matrix, uniformMatrix, pending, frames>>

(* initShaders() from createProgram on *)
FreeInitShaders ==
  /\ variant = "free"
  /\ pc = "link"
  /\ shaderProgram' = "program"
  /\ \E onNull \in AttachNullOutcomes,
        ok \in LinkOutcomes(vertexShader, fragmentShader, compileStatus) :
       LET a == AttachBoth(vertexShader, fragmentShader, onNull)
       IN  IF a.threw
           THEN /\ calls' = calls \o a.calls
                /\ thrown' = "TypeError"
                /\ pc' = "crashed"
                /\ UNCHANGED linked
           ELSE /\ calls' = calls \o a.calls \o FreeLinkAndUse(ok)
                /\ linked' = ok
                /\ pc' = "initBuffer"
                /\ UNCHANGED thrown
  /\ UNCHANGED <<variant, gl, buffers, attributes, vertexShader, fragmentShader,
                 compileStatus, matrix, uniformMatrix, pending, frames>>

FreeInitBufferStep ==
  /\ variant = "free"
  /\ pc = "initBuffer"
  /\ calls' = calls \o FreeInitBuffer(linked)
  /\ pc' = "done"
  /\ UNCHANGED <<variant, gl, shaderProgram, buffers, attributes, vertexShader,
                 fragmentShader, compileStatus, linked, thrown,
                 matrix, uniformMatrix, pending, frames>>

(* ---------------- the rotating cube ---------------- *)

(* The count without the division: the number of coordinates. *)
CubeCoordinateCount == Len(vertexData)

(* drawArrays' count: vertexData.length / 3 *)
CubeVertexCount == Len(vertexData) \div 3

(* The draw call of the cube, at top level and in animate. *)
CubeDrawCall == Call("drawArrays", "TRIANGLES", "", <<0, CubeVertexCount>>)

(* gl.uniformMatrix4fv(uniformLocations.matrix, false, matrix) *)
CubeUniformCall == Call("uniformMatrix4fv", "matrix", "matrix", << >>)

(* Math.PI / 100 as the pair numerator, denominator of the multiple of PI *)
RotationStep == <<1, 100>>

(* animate() that forgets the rotation about Y. *)
AnimateRotationsNoY == <<"rotateZ", "rotateX">>

(* The mat4 rotations of one animate() call, in order. *)
AnimateRotations == <<"rotateZ", "rotateX", "rotateY">>

(* mat4.create() followed by mat4.scale(matrix, matrix, [0.5, 0.5, 0.5]):  *)
(* a matrix is the sequence of transformations applied to the identity.    *)
InitialMatrix == <<"scale">>

(* animate() that uploads the uniform before it rotates the matrix. *)
AnimateCallsUploadFirst ==
  <<Call("requestAnimationFrame", "", "animate", << >>), CubeUniformCall>>
  \o [i \in 1..Len(AnimateRotations) |->
        Call("mat4." \o AnimateRotations[i], "", "matrix", RotationStep)]
  \o <<CubeDrawCall>>

(* animate() that never asks for the next frame. *)
AnimateCallsNoRequest ==
  [i \in 1..Len(AnimateRotations) |->
        Call("mat4." \o AnimateRotations[i], "", "matrix", RotationStep)]
  \o <<CubeUniformCall, CubeDrawCall>>

(* The host calls of one animate() call, in order. *)
AnimateCalls ==
  <<Call("requestAnimationFrame", "", "animate", << >>)>>
  \o [i \in 1..Len(AnimateRotations) |->
        Call("mat4." \o AnimateRotations[i], "", "matrix", RotationStep)]
  \o <<CubeUniformCall, CubeDrawCall>>

(* canvas.getContext("webgl") and the check that throws *)
CubeGetContext ==
  /\ variant = "cube"
  /\ pc = "start"
  /\ \E r \in ContextOutcomes :
       /\ gl' = IF r = "ctx" THEN "webgl" ELSE "null"
       /\ calls' = calls \o <<Call("getContext", "webgl", r, << >>)>>
                   \o (IF r = "null"
                       THEN <<Call("throw", "", "WebGL is not supported", << >>)>>
                       ELSE << >>)
       /\ thrown' = IF r = "ctx" THEN "none"
                    ELSE IF r = "null" THEN "Error" ELSE "TypeError"
       /\ pc' = IF r = "ctx" THEN "buffers" ELSE "crashed"
  /\ UNCHANGED <<variant, shaderProgram, buffers, attributes, vertexShader,
                 fragmentShader, compileStatus, linked,
                 matrix, uniformMatrix, pending, frames>>

(* positionBuffer and colorBuffer: create, bind, upload *)
CubeBufferCalls ==
  << Call("createBuffer", "", "positionBuffer", << >>),
     Call("bindBuffer", "ARRAY_BUFFER", "positionBuffer", << >>),
     Call("bufferData", "ARRAY_BUFFER", "STATIC_DRAW", <<Len(vertexData)>>),
     Call("createBuffer", "", "colorBuffer", << >>),
     Call("bindBuffer", "ARRAY_BUFFER", "colorBuffer", << >>),
     Call("bufferData", "ARRAY_BUFFER", "STATIC_DRAW", <<Len(colors)>>) >>

CubeUploadBuffers ==
  /\ variant = "cube"
  /\ pc = "buffers"
  /\ calls' = calls \o CubeBufferCalls
  /\ buffers' = [k \in {"positionBuffer", "colorBuffer"} |-> k]
  /\ pc' = "shaders"
  /\ UNCHANGED <<variant, gl, shaderProgram, attributes, vertexShader,
                 fragmentShader, compileStatus, linked, thrown,
                 matrix, uniformMatrix, pending, frames>>

(* createShader, shaderSource, compileShader; the status is never read *)
CubeShaderCalls(type) ==
  << Call("createShader", type, ShaderName(type), << >>),
     Call("shaderSource", "", ShaderName(type), << >>),
     Call("compileShader", "", ShaderName(type), << >>) >>

CubeCompileShaders ==
  /\ variant = "cube"
  /\ pc = "shaders"
  /\ \E okV \in BOOLEAN, okF \in BOOLEAN :
       compileStatus' = Put(Put(compileStatus, "vs", okV), "fs", okF)
  /\ calls' = calls \o CubeShaderCalls("VERTEX_SHADER")
                    \o CubeShaderCalls("FRAGMENT_SHADER")
  /\ vertexShader' = "vs"
  /\ fragmentShader' = "fs"
  /\ pc' = "program"
  /\ UNCHANGED <<variant, gl, shaderProgram, buffers, attributes, linked, thrown,
                 matrix, uniformMatrix, pending, frames>>

CubeProgramCalls ==
  << Call("createProgram", "", "program", << >>),
     Call("attachShader", "", "vs", << >>),
     Call("attachShader", "", "fs", << >>),
     Call("linkProgram", "", "program", << >>) >>

CubeLinkProgram ==
  /\ variant = "cube"
  /\ pc = "program"
  /\ \E ok \in LinkOutcomes(vertexShader, fragmentShader, compileStatus) :
       linked' = ok
  /\ calls' = calls \o CubeProgramCalls
  /\ shaderProgram' = "program"
  /\ pc' = "attribs"
  /\ UNCHANGED <<variant, gl, buffers, attributes, vertexShader, fragmentShader,
                 compileStatus, thrown, matrix, uniformMatrix, pending, frames>>

(* getAttribLocation .. vertexAttribPointer for both attributes, then      *)
(* useProgram, enable(DEPTH_TEST), getUniformLocation and the matrix.      *)
CubeAttribCalls(isLinked) ==
  LET p == GetAttribLocation(isLinked, "cube", "position")
      c == GetAttribLocation(isLinked, "cube", "color")
  IN  << Call("getAttribLocation", "position", "program", <<p>>),
         Call("enableVertexAttribArray", "", "", <<p>>),
         Call("bindBuffer", "ARRAY_BUFFER", "positionBuffer", << >>),
         Call("vertexAttribPointer", "FLOAT", "", <<p, 3, 0, 0>>),
         Call("getAttribLocation", "color", "program", <<c>>),
         Call("enableVertexAttribArray", "", "", <<c>>),
         Call("bindBuffer", "ARRAY_BUFFER", "colorBuffer", << >>),
         Call("vertexAttribPointer", "FLOAT", "", <<c, 3, 0, 0>>),
         Call("useProgram", "", "program", << >>),
         Call("enable", "DEPTH_TEST", "", << >>),
         Call("getUniformLocation", "matrix", "program", << >>),
         Call("mat4.create", "", "matrix", << >>),
         Call("mat4.scale", "", "matrix", <<5, 5, 5>>) >>

CubeBindAttributes ==
  /\ variant = "cube"
  /\ pc = "attribs"
  /\ calls' = calls \o CubeAttribCalls(linked)
  /\ attributes' = [k \in {"position", "color"} |->
                      GetAttribLocation(linked, "cube", k)]
  /\ matrix' = InitialMatrix
  /\ pc' = "firstDraw"
  /\ UNCHANGED <<variant, gl, shaderProgram, buffers, vertexShader,
                 fragmentShader, compileStatus, linked, thrown,
                 uniformMatrix, pending, frames>>

(* the top-level uniformMatrix4fv and drawArrays before animate() *)
CubeInitialDraw ==
  /\ variant = "cube"
  /\ pc = "firstDraw"
  /\ calls' = calls \o <<CubeUniformCall, CubeDrawCall>>
  /\ uniformMatrix' = matrix
  /\ pc' = "animate"
  /\ UNCHANGED <<variant, gl, shaderProgram, buffers, attributes, vertexShader,
                 fragmentShader, compileStatus, linked, thrown,
                 matrix, pending, frames>>

(* What a sequence of calls does to the script's state. *)
IsRotation(c) == c.op \in {"mat4.rotateZ", "mat4.rotateX", "mat4.rotateY"}

RotationName(c) ==
  IF c.op = "mat4.rotateZ" THEN "rotateZ"
  ELSE IF c.op = "mat4.rotateX" THEN "rotateX" ELSE "rotateY"

(* The matrix m after the mat4 rotations among the calls cs. *)
ApplyRotations(m, cs) ==
  LET rs == SelectSeq(cs, IsRotation)
  IN  m \o [i \in 1..Len(rs) |-> RotationName(rs[i])]

(* The matrix the program's uniform holds after the calls cs, issued with  *)
(* matrix m and uniform u: m as rotated up to the last uniformMatrix4fv.   *)
UploadedMatrix(m, u, cs) ==
  LET ups == {i \in 1..Len(cs) : cs[i].op = "uniformMatrix4fv"}
  IN  IF ups = {} THEN u
      ELSE ApplyRotations(m, SubSeq(cs, 1, CHOOSE i \in ups : \A k \in ups : k <= i))

(* The callbacks the calls cs register with requestAnimationFrame. *)
Registered(cs) ==
  Cardinality({i \in 1..Len(cs) : cs[i].op = "requestAnimationFrame"})

(* animate(): called once at top level, then by the host for a pending     *)
(* requestAnimationFrame callback, which that firing consumes.  It runs to *)
(* its end in one step: nothing in it awaits or yields.                    *)
Animate ==
  /\ variant = "cube"
  /\ \/ pc = "animate"
     \/ pc = "idle" /\ pending > 0
  /\ frames < MaxFrames
  /\ pending' = (IF pc = "idle" THEN pending - 1 ELSE pending)
                + Registered(AnimateCalls)
  /\ matrix' = ApplyRotations(matrix, AnimateCalls)
  /\ uniformMatrix' = UploadedMatrix(matrix, uniformMatrix, AnimateCalls)
  /\ calls' = calls \o AnimateCalls
  /\ frames' = frames + 1
  /\ pc' = "idle"
  /\ UNCHANGED <<variant, gl, shaderProgram, buffers, attributes, vertexShader,
                 fragmentShader, compileStatus, linked, thrown>>

Init ==
  /\ variant \in Variants
  /\ pc = "start"
  /\ calls = << >>
  /\ gl = "null"
  /\ shaderProgram = "null"
  /\ buffers = EmptyObject
  /\ attributes = NoAttributes
  /\ vertexShader = "none"
  /\ fragmentShader = "none"
  /\ compileStatus = NoStatus
  /\ linked = FALSE
  /\ thrown = "none"
  /\ matrix = << >>
  /\ uniformMatrix = << >>
  /\ pending = 0
  /\ frames = 0

Next ==
  \/ AppConstructor
  \/ AppInit
  \/ AppCompileVertex
  \/ AppCompileFragment
  \/ AppInitShaders
  \/ AppInitBuffersStep
  \/ AppDrawStep
  \/ FreeStart
  \/ FreeGetFragmentShader
  \/ FreeGetVertexShader
  \/ FreeInitShaders
  \/ FreeInitBufferStep
  \/ CubeGetContext
  \/ CubeUploadBuffers
  \/ CubeCompileShaders
  \/ CubeLinkProgram
  \/ CubeBindAttributes
  \/ CubeInitialDraw
  \/ Animate

Spec == Init /\ [][Next]_vars

(* ---------------- reading the call sequence ---------------- *)

Idx == 1..Len(calls)

DrawOps == {"drawArrays", "drawElements"}
MessageOps == {"alert", "console.error", "throw"}
RenderOps == {"bufferData", "vertexAttribPointer", "enableVertexAttribArray",
              "drawArrays", "drawElements"}

CountCalls(op, obj) ==
  Cardinality({i \in Idx : calls[i].op = op /\ calls[i].obj = obj})

(* The buffer bound to ARRAY_BUFFER when call i is issued. *)
BoundAt(i) ==
  LET binds == {j \in 1..(i - 1) : calls[j].op = "bindBuffer"
                                   /\ calls[j].target = "ARRAY_BUFFER"}
  IN  IF binds = {} THEN "none"
      ELSE calls[CHOOSE j \in binds : \A k \in binds : k <= j].obj

(* Buffer b has received data by a bufferData issued before call i. *)
UploadedBefore(b, i) ==
  \E j \in 1..(i - 1) : calls[j].op = "bufferData" /\ BoundAt(j) = b

(* ---------------- C1 ---------------- *)

(* C1: every drawArrays call is issued after at least one attribute        *)
(* pointer was set, and every buffer an attribute pointer set before the   *)
(* draw refers to had data uploaded by bufferData before the draw.         *)
C1_BuffersUploadedBeforeDraw ==
  \A i \in Idx :
    calls[i].op \in DrawOps =>
      /\ \E j \in 1..(i - 1) : calls[j].op = "vertexAttribPointer"
      /\ \A j \in 1..(i - 1) :
           calls[j].op = "vertexAttribPointer" =>
             /\ BoundAt(j) # "none"
             /\ UploadedBefore(BoundAt(j), i)

C1_Witness ==
  /\ variant = "twobuf"
  /\ pc = "done"
  /\ \E i \in Idx : calls[i].op = "drawArrays"
                    /\ UploadedBefore("position", i) /\ UploadedBefore("color", i)

(* ---------------- C2 ---------------- *)

(* C2: at every getAttribLocation call the program has linked successfully *)
(* and a useProgram call for it has already been issued.                   *)
C2_LinkedAndActiveBeforeQuery ==
  \A i \in Idx :
    calls[i].op = "getAttribLocation" =>
      /\ linked
      /\ \E j \in 1..(i - 1) : calls[j].op = "useProgram"
                               /\ calls[j].obj = calls[i].obj

(* ---------------- C3 ---------------- *)

(* Call i is where a triangle script learns of a failure: the last         *)
(* getContext of a failed acquisition, or a status read as false.          *)
FailureAt(i) ==
  \/ /\ calls[i].op = "getContext"
     /\ pc # "start" /\ gl = "null"
     /\ \A k \in Idx : calls[k].op = "getContext" => k <= i
  \/ /\ calls[i].op \in {"getShaderParameter", "getProgramParameter"}
     /\ calls[i].args = <<0>>

(* C3: in the triangle variants, after a failed context acquisition, a     *)
(* failed compile or a LINK_STATUS read as false, no buffer upload,        *)
(* attribute setup or draw call is issued.                                 *)
C3_NoRenderingAfterFailure ==
  variant \in TriangleVariants =>
    \A i \in Idx : FailureAt(i) =>
      \A k \in Idx : k > i => calls[k].op \notin RenderOps

(* ---------------- C4 ---------------- *)

(* C4: once acquisition is over without a context, the script has emitted  *)
(* a message (alert, console.error, throw) or an exception is propagating. *)
C4_ContextFailureReported ==
  (pc # "start" /\ gl = "null") =>
    \/ \E i \in Idx : calls[i].op \in MessageOps
    \/ thrown # "none"

(* ---------------- C5 ---------------- *)

(* C5: every shader whose COMPILE_STATUS is false has a message carrying   *)
(* its info log, and a program whose link failed has a message carrying    *)
(* the program's diagnostic text.                                          *)
C5_FailuresReportedWithDiagnostics ==
  /\ \A s \in DOMAIN compileStatus :
       ~compileStatus[s] =>
         \E i \in Idx : calls[i].op \in MessageOps /\ calls[i].target = s
  /\ ((\E i \in Idx : calls[i].op = "linkProgram") /\ ~linked) =>
       \E i \in Idx : calls[i].op \in MessageOps /\ calls[i].target = "program"

(* ---------------- C6 ---------------- *)

DrawIdx == {i \in Idx : calls[i].op \in DrawOps}

(* C6: in a triangle variant every draw call is drawArrays(TRIANGLES, 0,   *)
(* 3), there is never more than one, and once a script whose program       *)
(* linked has run to its end there is exactly one.                         *)
C6_TriangleDrawIsThreeVertices ==
  variant \in TriangleVariants =>
    /\ \A i \in DrawIdx : /\ calls[i].op = "drawArrays"
                          /\ calls[i].target = "TRIANGLES"
                          /\ calls[i].args = <<0, 3>>
    /\ Cardinality(DrawIdx) <= 1
    /\ (pc = "done" /\ linked) => Cardinality(DrawIdx) = 1

C6_Witness ==
  /\ variant = "interleaved"
  /\ pc = "done" /\ linked
  /\ calls[Len(calls)].op = "drawArrays"

(* ---------------- C7 ---------------- *)

(* C7 as stated: every cube draw call submits 36 indices from an uploaded  *)
(* element array buffer.                                                   *)
C7_CubeDrawsFromIndexBuffer ==
  variant = "cube" =>
    \A i \in DrawIdx :
      /\ calls[i].op = "drawElements"
      /\ calls[i].args[Len(calls[i].args)] = 36
      /\ \E j \in 1..(i - 1) : calls[j].op = "bufferData"
                               /\ calls[j].target = "ELEMENT_ARRAY_BUFFER"

(* C7 amended: every cube draw call is drawArrays(TRIANGLES, 0, 36), one   *)
(* vertex per three uploaded position coordinates, read from the position  *)
(* array buffer uploaded with 108 numbers; no element array buffer is ever *)
(* bound or uploaded and drawElements is never called.                     *)
C7_CubeDrawsThirtySixVertices ==
  variant = "cube" =>
    /\ \A i \in DrawIdx :
         /\ calls[i].op = "drawArrays"
         /\ calls[i].target = "TRIANGLES"
         /\ calls[i].args = <<0, 36>>
         /\ \E j \in 1..(i - 1) :
              /\ calls[j].op = "bufferData"
              /\ BoundAt(j) = "positionBuffer"
              /\ calls[j].args = <<3 * 36>>
    /\ \A i \in Idx : calls[i].target # "ELEMENT_ARRAY_BUFFER"
    /\ (pc = "idle" => Cardinality(DrawIdx) = 1 + frames)

C7_Witness ==
  /\ variant = "cube"
  /\ frames = 2
  /\ Cardinality(DrawIdx) = 3

(* ---------------- C8 ---------------- *)

(* The rotations applied to the matrix, in order, after its construction. *)
Rotations == SubSeq(matrix, Len(InitialMatrix) + 1, Len(matrix))

(* C8: after n animate() calls the matrix has received, after its          *)
(* construction, exactly n times the steps rotateZ, rotateX, rotateY in    *)
(* that order, each issued with PI/100; the matrix uploaded for the        *)
(* initial draw has received none.                                         *)
C8_OneStepPerAxisPerFrame ==
  (variant = "cube" /\ pc \in {"firstDraw", "animate", "idle"}) =>
    /\ SubSeq(matrix, 1, Len(InitialMatrix)) = InitialMatrix
    /\ Len(Rotations) = 3 * frames
    /\ \A k \in 1..frames :
         /\ Rotations[3 * k - 2] = "rotateZ"
         /\ Rotations[3 * k - 1] = "rotateX"
         /\ Rotations[3 * k] = "rotateY"
    /\ \A axis \in {"rotateZ", "rotateX", "rotateY"} :
         /\ Cardinality({i \in 1..Len(Rotations) : Rotations[i] = axis}) = frames
         /\ Cardinality({i \in Idx : /\ calls[i].op = "mat4." \o axis
                                     /\ calls[i].args = <<1, 100>>}) = frames
    /\ CountCalls("requestAnimationFrame", "animate") = frames
    /\ (pc = "animate" => uniformMatrix = InitialMatrix)

C8_Witness ==
  /\ variant = "cube"
  /\ frames = 3
  /\ Len(Rotations) = 9

(* ---------------- C9 ---------------- *)

(* C9: WebGLApp.initWebGL asks for "webgl" first and for                   *)
(* "experimental-webgl" exactly when that returned null; it returns the    *)
(* first context obtained, null when a getContext threw or both returned   *)
(* null, and no exception leaves it.                                       *)
C9_InitWebGLReturnsContextOrNull ==
  [][(variant \in AppVariants /\ pc = "start") =>
       LET r1 == calls'[1].obj
           second == Len(calls') >= 2 /\ calls'[2].op = "getContext"
           r2 == IF second THEN calls'[2].obj ELSE "unasked"
           asked == {i \in 1..Len(calls') : calls'[i].op = "getContext"}
       IN  /\ calls'[1].op = "getContext" /\ calls'[1].target = "webgl"
           /\ second <=> r1 = "null"
           /\ second => calls'[2].target = "experimental-webgl"
           /\ Cardinality(asked) = (IF second THEN 2 ELSE 1)
           /\ r1 = "ctx" => gl' = "webgl"
           /\ (r1 = "null" /\ r2 = "ctx") => gl' = "experimental-webgl"
           /\ (r1 = "throw" \/ r2 = "throw" \/ (r1 = "null" /\ r2 = "null"))
                => gl' = "null"
           /\ thrown' = "none"
           /\ pc' = "init"]_vars

C9_Witness ==
  /\ variant \in AppVariants
  /\ pc = "init"
  /\ gl = "null"
  /\ Len(calls) = 3
  /\ calls[2].obj = "throw"

(* ---------------- C10 ---------------- *)

(* C10: for each shader WebGLApp.compileShader has compiled: with          *)
(* COMPILE_STATUS true the shader is returned and never deleted; with      *)
(* COMPILE_STATUS false null is returned, one console.error carrying its   *)
(* info log is issued, deleteShader is called on it exactly once; and      *)
(* while compileShader runs shaderProgram, buffers, attributes keep their  *)
(* constructor values.                                                     *)
C10_CompileShaderReturnsShaderOrNull ==
  variant \in AppVariants =>
    /\ \A s \in DOMAIN compileStatus :
         LET ret == IF s = "vs" THEN vertexShader ELSE fragmentShader
         IN  IF compileStatus[s]
             THEN /\ ret = s
                  /\ CountCalls("deleteShader", s) = 0
             ELSE /\ ret = "null"
                  /\ CountCalls("deleteShader", s) = 1
                  /\ Cardinality({i \in Idx : calls[i].op = "console.error"
                                              /\ calls[i].target = s}) = 1
    /\ pc \in {"compileFS", "link"} =>
         /\ shaderProgram = "null"
         /\ buffers = EmptyObject
         /\ attributes = NoAttributes

C10_Witness ==
  /\ variant \in AppVariants
  /\ pc = "link"
  /\ vertexShader = "null"
  /\ fragmentShader = "fs"
  /\ CountCalls("deleteShader", "vs") = 1

(* ---------------- C11 ---------------- *)

OpsAt(ops) == {i \in Idx : calls[i].op \in ops}

(* Every call of A is issued before every call of B. *)
AllBefore(A, B) == \A i \in A, j \in B : i < j

ContextOps == {"getContext"}
CompileLinkOps == {"compileShader", "linkProgram"}
UploadOps == {"bufferData"}
BindOps == {"vertexAttribPointer"}

(* Calls on the rendering context or the matrix helper: everything but     *)
(* the acquisition and the messages.                                       *)
GlIdx == {i \in Idx : calls[i].op \notin ContextOps \cup MessageOps}

(* C11 as stated: in every variant the context is acquired first, then the *)
(* shaders are compiled and the program linked, then the buffers are       *)
(* uploaded, then the attributes are bound, then the draw is issued.       *)
C11_SameFixedOrder ==
  /\ AllBefore(OpsAt(ContextOps), GlIdx)
  /\ AllBefore(OpsAt(CompileLinkOps), OpsAt(UploadOps))
  /\ AllBefore(OpsAt(UploadOps), OpsAt(BindOps))
  /\ AllBefore(OpsAt(BindOps), OpsAt(DrawOps))

(* C11 amended: in every variant the context is acquired first, every      *)
(* upload precedes every attribute pointer, and every draw call comes      *)
(* after the compilation of both shaders, the link, the uploads and the    *)
(* attribute pointers; the triangle variants compile and link before they  *)
(* upload, the cube uploads its buffers before it compiles.                *)
C11_ContextFirstDrawLast ==
  /\ AllBefore(OpsAt(ContextOps), GlIdx)
  /\ AllBefore(OpsAt(UploadOps), OpsAt(BindOps))
  /\ AllBefore(OpsAt(BindOps), OpsAt(DrawOps))
  /\ \A i \in OpsAt(DrawOps) :
       /\ \A s \in {"vs", "fs"} :
            \E j \in 1..(i - 1) : calls[j].op = "compileShader" /\ calls[j].obj = s
       /\ \A op \in {"linkProgram", "bufferData", "vertexAttribPointer"} :
            \E j \in 1..(i - 1) : calls[j].op = op
  /\ variant \in TriangleVariants =>
       AllBefore(OpsAt(CompileLinkOps), OpsAt(UploadOps))
  /\ variant = "cube" =>
       AllBefore(OpsAt(UploadOps), OpsAt(CompileLinkOps))

C11_Witness ==
  /\ variant = "cube"
  /\ pc = "idle"
  /\ \E i \in OpsAt(UploadOps), j \in OpsAt(CompileLinkOps), k \in OpsAt(DrawOps) :
       i < j /\ j < k

(* ---------------- C12 ---------------- *)

(* The draw calls issued by animate(): all but the first of the script. *)
FrameDrawIdx ==
  {i \in DrawIdx : \E j \in DrawIdx : j < i}

(* C12: in the cube script, after any number of animate() calls, each      *)
(* frame has issued exactly one uniformMatrix4fv and one drawArrays, the   *)
(* upload directly before the draw and directly after the frame's          *)
(* rotations about Z, X and Y; the uniform holds the matrix as rotated in  *)
(* that frame; no frame callback is ever cancelled.                        *)
C12_FrameUploadsThenDraws ==
  (variant = "cube" /\ pc = "idle") =>
    /\ Cardinality(DrawIdx) = 1 + frames
    /\ Cardinality(OpsAt({"uniformMatrix4fv"})) = 1 + frames
    /\ OpsAt({"cancelAnimationFrame"}) = {}
    /\ \A i \in DrawIdx : calls[i - 1].op = "uniformMatrix4fv"
    /\ \A i \in FrameDrawIdx :
         /\ calls[i - 2].op = "mat4.rotateY"
         /\ calls[i - 3].op = "mat4.rotateX"
         /\ calls[i - 4].op = "mat4.rotateZ"
    /\ calls[Len(calls)].op = "drawArrays"
    /\ uniformMatrix = matrix
    /\ Len(uniformMatrix) = Len(InitialMatrix) + 3 * frames

C12_Witness ==
  /\ variant = "cube"
  /\ pc = "idle"
  /\ frames = 2
  /\ uniformMatrix = matrix
  /\ Cardinality(FrameDrawIdx) = 2

(* ---------------- C13 ---------------- *)

(* C13: in the WebGLApp variants, when initWebGL returned null, start()    *)
(* issues no gl call and no method is invoked on the null this.gl, so no   *)
(* TypeError is raised.                                                    *)
C13_NoCallOnNullContext ==
  (variant \in AppVariants /\ pc # "start" /\ gl = "null") =>
    /\ GlIdx = {}
    /\ thrown = "none"

(* ---------------- C14 ---------------- *)

(* animate() with no bound on the number of frames.  To keep the state     *)
(* space finite the history (calls, matrix, frames) is a window: when      *)
(* MaxFrames frames are recorded, the next frame starts the record again   *)
(* from the end of the setup.  pending is not part of the window.          *)
AnimateForever ==
  /\ variant = "cube"
  /\ \/ pc = "animate"
     \/ pc = "idle" /\ pending > 0
  /\ LET wrap == frames = MaxFrames
         keptCalls == IF wrap
                      THEN SubSeq(calls, 1, Len(calls) - MaxFrames * Len(AnimateCalls))
                      ELSE calls
         keptMatrix == IF wrap THEN InitialMatrix ELSE matrix
     IN  /\ pending' = (IF pc = "idle" THEN pending - 1 ELSE pending)
                       + Registered(AnimateCalls)
         /\ matrix' = ApplyRotations(keptMatrix, AnimateCalls)
         /\ uniformMatrix' = UploadedMatrix(keptMatrix, uniformMatrix, AnimateCalls)
         /\ calls' = keptCalls \o AnimateCalls
         /\ frames' = IF wrap THEN 1 ELSE frames + 1
  /\ pc' = "idle"
  /\ UNCHANGED <<variant, gl, shaderProgram, buffers, attributes, vertexShader,
                 fragmentShader, compileStatus, linked, thrown>>

LoopNext ==
  \/ AppConstructor
  \/ AppInit
  \/ AppCompileVertex
  \/ AppCompileFragment
  \/ AppInitShaders
  \/ AppInitBuffersStep
  \/ AppDrawStep
  \/ FreeStart
  \/ FreeGetFragmentShader
  \/ FreeGetVertexShader
  \/ FreeInitShaders
  \/ FreeInitBufferStep
  \/ CubeGetContext
  \/ CubeUploadBuffers
  \/ CubeCompileShaders
  \/ CubeLinkProgram
  \/ CubeBindAttributes
  \/ CubeInitialDraw
  \/ AnimateForever

(* The host runs the script's top-level call of animate() and fires every  *)
(* pending requestAnimationFrame callback eventually.                      *)
LoopSpec == Init /\ [][LoopNext]_vars /\ WF_vars(AnimateForever)

(* C14: in the cube script no callback is pending before the first         *)
(* animate(); after every animate() exactly one requestAnimationFrame      *)
(* callback is pending; and, the host firing pending callbacks, frames     *)
(* keep being drawn for ever (every position of the frame window comes     *)
(* round again).                                                           *)
C14_FrameLoopStaysAlive ==
  /\ []((variant = "cube" /\ pc # "idle") => pending = 0)
  /\ []((variant = "cube" /\ pc = "idle") => pending = 1)
  /\ \A n \in 1..MaxFrames :
       []((variant = "cube" /\ pc = "idle") => <>(frames = n))

C14_Witness ==
  /\ variant = "cube"
  /\ pc = "idle"
  /\ pending = 1
  /\ frames = MaxFrames
  /\ CountCalls("requestAnimationFrame", "animate") = MaxFrames

====
